---- MODULE Spec2Model ----
(***************************************************************************)
(* Habit tracker (src/app.py): a Streamlit script over two SQLite tables.  *)
(* Every user interaction re-runs the whole script; one action below is    *)
(* one script run (including the run that st.rerun() starts).  The streak  *)
(* table and the weekly calendar a run renders are functions of the two    *)
(* tables and of today, and are modelled as operators.                     *)
(* Calendar days are integers; strings that the code transforms are        *)
(* sequences of one-character strings.                                     *)
(***************************************************************************)
EXTENDS Integers, Sequences, FiniteSets, TLC

\* ---------------------------------------------------------------- bounds
MaxDay == 2
MaxHabitId == 1
MaxCheckInId == 3
MaxTextLen == 2

\* ---------------------------------------------------------------- inputs
HabitIds == 1..MaxHabitId
NameInputs == { <<>>, <<" ">>, <<"a">>, <<" ", "a", " ">> }
Frequencies == { "Daily", "Weekly" }

VARIABLES
    habits,         \* table "habits": set of [id, name, frequency]
    checkins,       \* table "checkins": set of [id, habit_id, day, done]
    today,          \* the date that date.today() returns (line 126)
    done,           \* value returned by each habit's checkbox in the last run
    event,          \* the interaction the last script run handled
    coach           \* the ask_coach call of the "Get Health Insights" handler

vars == << habits, checkins, today, done, event, coach >>

\* ------------------------------------------------------------ str.strip()
RECURSIVE LStrip(_)
LStrip(s) == IF s # <<>> /\ Head(s) = " " THEN LStrip(Tail(s)) ELSE s

RECURSIVE RStrip(_)
RStrip(s) ==
    IF s # <<>> /\ s[Len(s)] = " " THEN RStrip(SubSeq(s, 1, Len(s) - 1)) ELSE s

strip(s) == RStrip(LStrip(s))

\* ------------------------------------------------------------- the store
MaxOf(S) == CHOOSE m \in S : \A x \in S : x <= m

\* INTEGER PRIMARY KEY without AUTOINCREMENT: largest rowid in use plus one
NextRowId(table) == IF table = {} THEN 1 ELSE MaxOf({ r.id : r \in table }) + 1

Habit(table, name, frequency) ==
    [id |-> NextRowId(table), name |-> name, frequency |-> frequency]

CheckIn(table, habit_id, day, isDone) ==
    [id |-> NextRowId(table), habit_id |-> habit_id, day |-> day, done |-> isDone]

\* db.query(Habit).all(): the rows in rowid order
RECURSIVE RowsById(_)
RowsById(table) ==
    IF table = {} THEN <<>>
    ELSE LET r == CHOOSE x \in table : \A y \in table : x.id <= y.id
         IN  <<r>> \o RowsById(table \ {r})

\* db.query(CheckIn).filter_by(habit_id=h, day=d)
FilterBy(cs, h, d) == { c \in cs : c.habit_id = h /\ c.day = d }

\* .first() of a non-empty result
First(rows) == CHOOSE c \in rows : \A o \in rows : c.id <= o.id

\* ------------------------------------------------- daily check-in (205-228)
\* variant: the insert is not guarded by "not checkin"
CheckInStepBlindInsert(cs, h, d, v) ==
    LET found   == FilterBy(cs, h, d)
        present == found # {}
        checkin == First(found)
        added   == IF v THEN cs \cup { CheckIn(cs, h, d, TRUE) } ELSE cs
    IN  IF ~v /\ present
        THEN (added \ {checkin}) \cup { [checkin EXCEPT !.done = FALSE] }
        ELSE added

\* one iteration of the loop body for habit h whose checkbox returned v
CheckInStep(cs, h, d, v) ==
    LET found   == FilterBy(cs, h, d)
        present == found # {}
        checkin == First(found)
        added   == IF v /\ ~present
                   THEN cs \cup { CheckIn(cs, h, d, TRUE) }
                   ELSE cs
    IN  IF ~v /\ present
        THEN (added \ {checkin}) \cup { [checkin EXCEPT !.done = FALSE] }
        ELSE added

\* checked = checkin.done if checkin else False
Checked(cs, h, d) ==
    LET found == FilterBy(cs, h, d)
    IN  IF found # {} THEN First(found).done ELSE FALSE

\* the loop over the first n habits of hs with checkbox values vals
RECURSIVE CheckInLoop(_, _, _, _, _)
CheckInLoop(cs, hs, n, d, vals) ==
    IF n = 0 THEN cs
    ELSE CheckInStep(CheckInLoop(cs, hs, n - 1, d, vals),
                     hs[n].id, d, vals[hs[n].id])

\* ------------------------------------------------ delete handler (231-237)
\* variant: the cascade filters on the check-in's own id
DeleteCheckInsById(cs, h) == { c \in cs : c.id # h }

\* variant: no cascade
DeleteCheckInsNone(cs, h) == cs

DeleteCheckIns(cs, h) == { c \in cs : c.habit_id # h }
DeleteHabitRow(hs, h) == { x \in hs : x.id # h }

\* ------------------------------------------------- streak table (244-271)
\* .order_by(CheckIn.day.desc()).all() for one habit
RECURSIVE OrderByDayDesc(_)
OrderByDayDesc(rows) ==
    IF rows = {} THEN <<>>
    ELSE LET r == CHOOSE x \in rows :
                    \A y \in rows : x.day > y.day \/ (x.day = y.day /\ x.id <= y.id)
         IN  <<r>> \o OrderByDayDesc(rows \ {r})

History(cs, h) == OrderByDayDesc({ c \in cs : c.habit_id = h })

\* variant: the scan does not compare the day with expected_day
RECURSIVE StreakScanAnyDay(_, _, _)
StreakScanAnyDay(history, i, expected_day) ==
    IF i > Len(history) THEN 0
    ELSE IF history[i].done
         THEN 1 + StreakScanAnyDay(history, i + 1, expected_day - 1)
         ELSE 0

\* the for/break scan from position i with the running expected_day
RECURSIVE StreakScan(_, _, _)
StreakScan(history, i, expected_day) ==
    IF i > Len(history) THEN 0
    ELSE IF history[i].day = expected_day /\ history[i].done
         THEN 1 + StreakScan(history, i + 1, expected_day - 1)
         ELSE 0

Streak(history, d) == StreakScan(history, 1, d)

\* variant: every record counts, done or not
RECURSIVE SumDoneAll(_, _)
SumDoneAll(history, i) ==
    IF i > Len(history) THEN 0 ELSE 1 + SumDoneAll(history, i + 1)

RECURSIVE SumDone(_, _)
SumDone(history, i) ==
    IF i > Len(history) THEN 0
    ELSE (IF history[i].done THEN 1 ELSE 0) + SumDone(history, i + 1)

TotalDone(history) == SumDone(history, 1)

StreakRow(cs, habit, d) ==
    LET history == History(cs, habit.id)
    IN  [Habit |-> habit.name, CurrentStreak |-> Streak(history, d),
         TotalCompleted |-> TotalDone(history), Frequency |-> habit.frequency]

StreakData(hs, cs, d) ==
    LET rows == RowsById(hs)
    IN  [i \in 1..Len(rows) |-> StreakRow(cs, rows[i], d)]

\* ----------------------------------------------- weekly calendar (280-299)
\* variant: range(7, 0, -1)
WeekDaysShifted(d) == [k \in 1..7 |-> d - (8 - k)]

\* [today - timedelta(days=i) for i in range(6, -1, -1)]
WeekDays(d) == [k \in 1..7 |-> d - (7 - k)]

CalendarCell(cs, h, day) ==
    LET found == FilterBy(cs, h, day)
    IN  [day |-> day,
         mark |-> IF found # {} /\ First(found).done THEN "done" ELSE "blank"]

CalendarRow(cs, habit, d) ==
    [Habit |-> habit.name,
     cells |-> [k \in 1..7 |-> CalendarCell(cs, habit.id, WeekDays(d)[k])]]

CalendarData(hs, cs, d) ==
    LET rows == RowsById(hs)
    IN  [i \in 1..Len(rows) |-> CalendarRow(cs, rows[i], d)]

\* ------------------------------------------------------ ask_coach (129-167)
\* A Python string is a sequence of pieces (characters or longer literals).
Warn == "[!]"

Digit(d) == CASE d = 0 -> "0" [] d = 1 -> "1" [] d = 2 -> "2" [] d = 3 -> "3"
              [] d = 4 -> "4" [] d = 5 -> "5" [] d = 6 -> "6" [] d = 7 -> "7"
              [] d = 8 -> "8" [] d = 9 -> "9"

\* str(n) of a non-negative integer
RECURSIVE Str(_)
Str(n) == IF n < 10 THEN << Digit(n) >> ELSE Str(n \div 10) \o << Digit(n % 10) >>

Return(value) == [raised |-> FALSE, value |-> value]
Raise(exc)    == [raised |-> TRUE, exc |-> exc]

\* exceptions: the classes an instance belongs to, and str(e)
Exc(classes, text) == [classes |-> classes \cup {"Exception"}, text |-> text]

\* response.json() followed by result.get('response', '').strip()
ResponseText(body) ==
    CASE body.json = "invalid" ->
           Raise(Exc({"JSONDecodeError", "ValueError"}, << "Expecting value" >>))
      [] body.json = "array" ->
           Raise(Exc({"AttributeError"}, << "'list' object has no attribute 'get'" >>))
      [] body.json = "object" /\ body.response.type = "missing" ->
           Return(strip(<< >>))
      [] body.json = "object" /\ body.response.type = "null" ->
           Raise(Exc({"AttributeError"},
                     << "'NoneType' object has no attribute 'strip'" >>))
      [] OTHER -> Return(strip(body.response.value))

\* variant: the 404 message names the handler's model, not the argument
StatusBranchFixedModel(model, response) ==
    IF response.status_code = 200 THEN ResponseText(response.body)
    ELSE IF response.status_code = 404
    THEN Return(<< Warn, " Model '", "tinyllama", "' not found. Install it with: ",
                   "ollama pull ", "tinyllama" >>)
    ELSE Return(<< Warn, " Ollama returned error " >> \o Str(response.status_code)
                \o << ". Is Ollama running?" >>)

\* lines 152-158: the branches on response.status_code
StatusBranch(model, response) ==
    IF response.status_code = 200 THEN ResponseText(response.body)
    ELSE IF response.status_code = 404
    THEN Return(<< Warn, " Model '", model, "' not found. Install it with: ",
                   "ollama pull ", model >>)
    ELSE Return(<< Warn, " Ollama returned error " >> \o Str(response.status_code)
                \o << ". Is Ollama running?" >>)

\* lines 135-158: requests.post either raises or yields a response (the
\* import at line 135 succeeds: the module is already imported at line 5)
TryBody(prompt, model, outcome) ==
    IF outcome.kind = "raise" THEN Raise(outcome.exc)
    ELSE StatusBranch(model, outcome.response)

\* variant: without the final "except Exception"
ExceptClausesNoCatchAll(exc) ==
    IF "ConnectionError" \in exc.classes
    THEN Return(<< Warn, " Cannot connect to Ollama. currently running on local pc only not in cloud." >>)
    ELSE IF "Timeout" \in exc.classes
    THEN Return(<< Warn, " Response timeout. Try a faster model like 'tinyllama'" >>)
    ELSE IF "ImportError" \in exc.classes
    THEN Return(<< Warn, " 'requests' library not installed. Run: pip install requests" >>)
    ELSE Raise(exc)

\* lines 160-167: the except clauses, in order
ExceptClauses(exc) ==
    IF "ConnectionError" \in exc.classes
    THEN Return(<< Warn, " Cannot connect to Ollama. currently running on local pc only not in cloud." >>)
    ELSE IF "Timeout" \in exc.classes
    THEN Return(<< Warn, " Response timeout. Try a faster model like 'tinyllama'" >>)
    ELSE IF "ImportError" \in exc.classes
    THEN Return(<< Warn, " 'requests' library not installed. Run: pip install requests" >>)
    ELSE IF "Exception" \in exc.classes
    THEN Return(<< Warn, " Error: " >> \o exc.text)
    ELSE Raise(exc)

ask_coach(prompt, model, outcome) ==
    LET r == TryBody(prompt, model, outcome)
    IN  IF r.raised THEN ExceptClauses(r.exc) ELSE r

\* lines 336-341: what the handler shows for a returned string
Display(response) ==
    IF response # << >> /\ Head(response) # Warn
    THEN [panel |-> "insights", text |-> response]
    ELSE [panel |-> "error", text |-> response,
          info |-> << "Install TinyLlama: ", "ollama pull ", "tinyllama" >>]

\* inputs of the coach call
Models == { "tinyllama", "llama2", "mistral" }
Prompts == { << "a (0 days)" >>, << "a (2 days)" >> }
ErrorStatuses == { 404, 400, 500, 503 }
Texts == UNION { [1..n -> {" ", "a"}] : n \in 0..MaxTextLen }
Bodies == { [json |-> "invalid"], [json |-> "array"],
            [json |-> "object", response |-> [type |-> "missing"]],
            [json |-> "object", response |-> [type |-> "null"]] }
          \cup { [json |-> "object", response |-> [type |-> "str", value |-> t]] :
                 t \in Texts }
Raised == { Exc({"ConnectionError", "RequestException"}, << "Connection refused" >>),
            Exc({"ConnectionError", "Timeout", "RequestException"}, << "Connect timed out" >>),
            Exc({"Timeout", "RequestException"}, << "Read timed out" >>),
            Exc({"RequestException"}, << "Exceeded 30 redirects" >>) }
Outcomes ==
    { [kind |-> "raise", exc |-> e] : e \in Raised }
    \cup { [kind |-> "response",
            response |-> [status_code |-> 200, body |-> b]] : b \in Bodies }
    \cup { [kind |-> "response",
            response |-> [status_code |-> s, body |-> [json |-> "invalid"]]] :
           s \in ErrorStatuses }

\* ------------------------------------------------------------ script runs
NoCoach == [pc |-> "idle"]

Ids(hs) == { x.id : x \in hs }

\* lines 200-228 of a run that no handler interrupts: the whole check-in loop
RunBody(hs, cs, vals) ==
    LET rows == RowsById(hs)
        cs2  == CheckInLoop(cs, rows, Len(rows), today, vals)
    IN  /\ MaxOf({ c.id : c \in cs2 } \cup {0}) <= MaxCheckInId
        /\ habits' = hs
        /\ checkins' = cs2
        /\ done' = vals

Init ==
    /\ habits = {}
    /\ checkins = {}
    /\ today = 0
    /\ done = << >>
    /\ event = [kind |-> "start"]
    /\ coach = NoCoach

\* the user ticks or unticks check-in boxes; no button is clicked
Toggle(vals) ==
    /\ habits # {}
    /\ RunBody(habits, checkins, vals)
    /\ event' = [kind |-> "checkin"]
    /\ UNCHANGED << today, coach >>

\* "Save Habit" (186-191); st.rerun() starts the run that RunBody models, in
\* which the new habit's checkbox has no widget state and shows its default.
\* A name that strips to nothing adds no habit and the run goes on to the
\* check-in loop (which does nothing when there is no habit).
SaveHabit(name, frequency, vals) ==
    /\ IF strip(name) # <<>>
       THEN LET new == Habit(habits, strip(name), frequency)
                hs  == habits \cup {new}
                all == [h \in Ids(hs) |-> IF h \in Ids(habits) THEN vals[h]
                                          ELSE Checked(checkins, h, today)]
            IN  /\ new.id <= MaxHabitId
                /\ RunBody(hs, checkins, all)
                /\ event' = [kind |-> "add", id |-> new.id,
                             reused |-> event.kind = "delete" /\ event.id = new.id
                                        /\ event.had > 0]
       ELSE /\ habits # {}
            /\ RunBody(habits, checkins, vals)
            /\ event' = [kind |-> "checkin"]
    /\ UNCHANGED << today, coach >>

\* delete button of the n-th habit (231-237): the loop has handled habits
\* 1..n of this run when the handler fires; st.rerun() starts a full run
DeleteHabit(n, vals) ==
    LET rows == RowsById(habits)
    IN  /\ n \in 1..Len(rows)
        /\ LET h   == rows[n].id
               cs1 == CheckInLoop(checkins, rows, n, today, vals)
               cs2 == DeleteCheckIns(cs1, h)
               hs2 == DeleteHabitRow(habits, h)
           IN  /\ MaxOf({ c.id : c \in cs1 } \cup {0}) <= MaxCheckInId
               /\ RunBody(hs2, cs2, [x \in Ids(hs2) |-> vals[x]])
               /\ event' = [kind |-> "delete", id |-> h,
                            had |-> Cardinality({ c \in cs1 : c.habit_id = h })]
        /\ UNCHANGED << today, coach >>

\* midnight passes; the next run reads the new date
DayAdvance ==
    /\ today < MaxDay
    /\ today' = today + 1
    /\ event' = [kind |-> "midnight"]
    /\ UNCHANGED << habits, checkins, done, coach >>

Next ==
    \/ \E vals \in [Ids(habits) -> BOOLEAN] : Toggle(vals)
    \/ \E name \in NameInputs, f \in Frequencies, vals \in [Ids(habits) -> BOOLEAN] :
          SaveHabit(name, f, vals)
    \/ \E n \in HabitIds, vals \in [Ids(habits) -> BOOLEAN] : DeleteHabit(n, vals)
    \/ DayAdvance

Spec == Init /\ [][Next]_vars

\* ------------------------------------------- the coach call on drawn inputs
CoachInit ==
    /\ habits = {}
    /\ checkins = {}
    /\ today = 0
    /\ done = << >>
    /\ event = [kind |-> "start"]
    /\ coach \in { [pc |-> "call", prompt |-> p, model |-> m, outcome |-> o] :
                   p \in Prompts, m \in Models, o \in Outcomes }

AskCoach ==
    /\ coach.pc = "call"
    /\ coach' = [coach EXCEPT !.pc = "returned"]
                @@ [result |-> ask_coach(coach.prompt, coach.model, coach.outcome)]
    /\ UNCHANGED << habits, checkins, today, done, event >>

ShowResponse ==
    /\ coach.pc = "returned"
    /\ ~coach.result.raised
    /\ coach' = [coach EXCEPT !.pc = "shown"]
                @@ [shown |-> Display(coach.result.value)]
    /\ UNCHANGED << habits, checkins, today, done, event >>

CoachNext == AskCoach \/ ShowResponse

CoachSpec == CoachInit /\ [][CoachNext]_vars

\* ================================================================ properties
DoneOn(h, day) == \E c \in checkins : c.habit_id = h /\ c.day = day /\ c.done
RecordOn(h, day) == \E c \in checkins : c.habit_id = h /\ c.day = day
Contains(s, sub) ==
    \E i \in 1..(Len(s) - Len(sub) + 1) : SubSeq(s, i, i + Len(sub) - 1) = sub
AfterRun == event.kind \in { "checkin", "add", "delete" }
Returned == coach.pc \in { "returned", "shown" }
Got200 == coach.outcome.kind = "response" /\ coach.outcome.response.status_code = 200

\* C1: after a run's check-in step has processed a habit whose checkbox for
\* today has value v, the stored check-in for (habit, today) reads done = v,
\* an absent record counting as not done.
C1_UpsertStoresValue ==
    AfterRun => \A h \in DOMAIN done : DoneOn(h, today) = done[h]

\* C2: there is at most one CheckIn record per (habit_id, day) pair.
C2_OneRecordPerHabitDay ==
    \A c1 \in checkins : \A c2 \in checkins :
        (c1.habit_id = c2.habit_id /\ c1.day = c2.day) => c1 = c2

\* a run processed a box that was unticked while today's record existed
C2_Witness ==
    /\ event.kind = "checkin"
    /\ \E c \in checkins : c.day = today /\ ~c.done /\ ~done[c.habit_id]
    /\ \E c \in checkins : c.day < today

C4_TotalCountsDoneRecords ==
    \A habit \in habits :
        TotalDone(History(checkins, habit.id))
            = Cardinality({ c \in checkins : c.habit_id = habit.id /\ c.done })

\* two done records around a retained done=false record: total 2
C4_Witness ==
    \E habit \in habits :
        /\ DoneOn(habit.id, today) /\ DoneOn(habit.id, today - 2)
        /\ RecordOn(habit.id, today - 1) /\ ~DoneOn(habit.id, today - 1)
        /\ TotalDone(History(checkins, habit.id)) = 2

\* C5: the weekly grid of a habit has exactly 7 entries, for the 7 consecutive
\* days ending today, oldest first, and an entry is "done" iff a check-in with
\* done=true exists for that exact day.
C5_WeeklyGrid ==
    \A habit \in habits :
        LET cells == CalendarRow(checkins, habit, today).cells
        IN  /\ DOMAIN cells = 1..7
            /\ \A k \in 1..7 :
                  /\ cells[k].day = today - 7 + k
                  /\ (cells[k].mark = "done") <=> DoneOn(habit.id, cells[k].day)

\* today is done and yesterday has a done=false record: last two cells differ
C5_Witness ==
    \E habit \in habits :
        LET cells == CalendarRow(checkins, habit, today).cells
        IN  /\ cells[7].mark = "done" /\ cells[6].mark = "blank"
            /\ RecordOn(habit.id, today - 1)
            /\ cells[5].mark = "done" /\ cells[4].mark = "blank"

\* C6: right after the delete handler ran for habit id, the habit is gone
\* and no check-in record has that habit_id.
C6_DeleteCascades ==
    event.kind = "delete" =>
        /\ event.id \notin Ids(habits)
        /\ { c \in checkins : c.habit_id = event.id } = {}

\* the deleted habit had check-ins on more than one day
C6_Witness == event.kind = "delete" /\ event.had >= 2

\* C10: every check-in's habit_id is the id of an existing habit, and a habit
\* that was just added has no check-ins (streak 0, total 0).
C10_ReferentialIntegrity ==
    /\ \A c \in checkins : c.habit_id \in Ids(habits)
    /\ event.kind = "add" =>
          /\ { c \in checkins : c.habit_id = event.id } = {}
          /\ Streak(History(checkins, event.id), today) = 0
          /\ TotalDone(History(checkins, event.id)) = 0

\* the new habit got the id of a habit deleted together with its check-ins
C10_Witness == event.kind = "add" /\ event.reused

\* C7: ask_coach returns a string for every outcome of its request.
C7_NeverRaises ==
    Returned => /\ ~coach.result.raised
                /\ coach.result.value \in Seq(STRING)

\* status 200 with a body that is not JSON: the error text comes back
C7_Witness ==
    /\ coach.pc = "returned" /\ Got200
    /\ coach.outcome.response.body.json = "invalid"
    /\ coach.result = Return(<< Warn, " Error: ", "Expecting value" >>)

\* C8: status 200 with empty or whitespace-only text yields a non-empty
\* message.
C8_EmptyTextGivesMessage ==
    (/\ Returned /\ Got200
     /\ coach.outcome.response.body.json = "object"
     /\ coach.outcome.response.body.response.type = "str"
     /\ strip(coach.outcome.response.body.response.value) = << >>)
    => (~coach.result.raised /\ coach.result.value # << >>)

\* C9: on status 404 the message contains "ollama pull m" for the model m of
\* the call; on a status other than 200 and 404 it is the generic message
\* with that status code.
C9_StatusMessages ==
    (Returned /\ coach.outcome.kind = "response") =>
        LET status == coach.outcome.response.status_code
        IN  /\ status = 404 =>
                 /\ ~coach.result.raised
                 /\ Contains(coach.result.value, << "ollama pull ", coach.model >>)
            /\ status \notin { 200, 404 } =>
                 /\ ~coach.result.raised
                 /\ Contains(coach.result.value, Str(status))
                 /\ ~Contains(coach.result.value, << "ollama pull " >>)
                 /\ Head(coach.result.value) = Warn

\* a 404 for a model other than the one the handler passes
C9_Witness ==
    /\ coach.pc = "returned"
    /\ coach.outcome.kind = "response"
    /\ coach.outcome.response.status_code = 404
    /\ coach.model = "mistral"
    /\ Contains(coach.result.value, << "ollama pull ", "mistral" >>)

====
